---------------------------- MODULE Spec2Model ----------------------------
(***************************************************************************)
(* aoccli: the score engine (MaxAvailableDay, DayReleaseTime,              *)
(* BuildDayEntries) and the interactive controller (tui.Model) as a state  *)
(* machine.                                                                *)
(*                                                                         *)
(* Strings that the code parses, formats or compares (day keys, member     *)
(* keys, display names) are sequences of one-character strings, so that    *)
(* strconv.Atoi, strconv.Itoa and Go's bytewise string order are modelled  *)
(* by what they compute.                                                   *)
(***************************************************************************)
EXTENDS Integers, Sequences, FiniteSets, TLC

(***************************************************************************)
(* Strings                                                                 *)
(***************************************************************************)

\* The byte value of each character the model uses (Go compares strings bytewise).
Ord(c) ==
    CASE c = " " -> 32 [] c = "#" -> 35 [] c = "(" -> 40 [] c = ")" -> 41
      [] c = "+" -> 43 [] c = "-" -> 45
      [] c = "0" -> 48 [] c = "1" -> 49 [] c = "2" -> 50 [] c = "3" -> 51
      [] c = "4" -> 52 [] c = "5" -> 53 [] c = "6" -> 54 [] c = "7" -> 55
      [] c = "8" -> 56 [] c = "9" -> 57
      [] c = "A" -> 65 [] c = "B" -> 66
      [] c = "a" -> 97 [] c = "e" -> 101 [] c = "m" -> 109 [] c = "n" -> 110
      [] c = "o" -> 111 [] c = "r" -> 114 [] c = "s" -> 115 [] c = "u" -> 117
      [] c = "x" -> 120 [] c = "y" -> 121

\* a < b for Go strings: lexicographic on bytes, a proper prefix is smaller.
StrLess(a, b) ==
    \E i \in 1..Len(b) :
        /\ \A j \in 1..(i - 1) : j <= Len(a) /\ a[j] = b[j]
        /\ i - 1 <= Len(a)
        /\ \/ i > Len(a)
           \/ Ord(a[i]) < Ord(b[i])

Digits == <<"0", "1", "2", "3", "4", "5", "6", "7", "8", "9">>

IsDigit(c) == \E d \in 1..10 : Digits[d] = c

DigitVal(c) == (CHOOSE d \in 1..10 : Digits[d] = c) - 1

RECURSIVE DigitsVal(_)
\* The value of a non-empty sequence of decimal digits.
DigitsVal(s) ==
    IF Len(s) = 0 THEN 0
    ELSE 10 * DigitsVal(SubSeq(s, 1, Len(s) - 1)) + DigitVal(s[Len(s)])

\* strconv.Atoi: an optional sign, then one or more decimal digits; anything
\* else is an error.  ok is FALSE where Atoi returns a non-nil error.
Atoi(s) ==
    LET signed == Len(s) > 0 /\ s[1] \in {"+", "-"}
        body   == IF signed THEN SubSeq(s, 2, Len(s)) ELSE s
        good   == Len(body) > 0 /\ \A i \in 1..Len(body) : IsDigit(body[i])
    IN  IF ~good THEN [ok |-> FALSE, val |-> 0]
        ELSE [ok  |-> TRUE,
              val |-> IF signed /\ s[1] = "-" THEN 0 - DigitsVal(body)
                      ELSE DigitsVal(body)]

RECURSIVE NatStr(_)
\* The decimal digits of a natural number, no leading zeros.
NatStr(n) ==
    IF n < 10 THEN <<Digits[n + 1]>>
    ELSE NatStr(n \div 10) \o <<Digits[(n % 10) + 1]>>

\* strconv.Itoa (and fmt's %d).
Itoa(n) == IF n < 0 THEN <<"-">> \o NatStr(0 - n) ELSE NatStr(n)

(***************************************************************************)
(* Leaderboard model                                                       *)
(***************************************************************************)

\* Member.Name is a *string: <<>> is the nil pointer, <<s>> points to s.
NilName == <<>>

AnonPrefix ==
    <<"(", "a", "n", "o", "n", "y", "m", "o", "u", "s", " ",
      "u", "s", "e", "r", " ", "#">>

\* Member.DisplayName.
DisplayName(m) ==
    IF m.Name # NilName /\ m.Name[1] # <<>> THEN m.Name[1]
    ELSE AnonPrefix \o Itoa(m.ID) \o <<")">>

\* The two star indexes the engine reads, as JSON keys.
Star1 == <<"1">>

Star2 == <<"2">>

(***************************************************************************)
(* Score engine                                                            *)
(***************************************************************************)

SecondsPerDay == 86400

\* The day numbers MaxAvailableDay's loops see and keep: every key of every
\* member's CompletionDayLevel that strconv.Atoi accepts.
ParsedDays(lb) ==
    { Atoi(k).val : k \in { kk \in UNION { DOMAIN lb.Members[m].CompletionDayLevel :
                                            m \in DOMAIN lb.Members } : Atoi(kk).ok } }

RECURSIVE SetMax(_, _)
\* The running maximum of MaxAvailableDay's loops: d > maxDay replaces maxDay.
SetMax(S, start) ==
    IF S = {} THEN start
    ELSE LET d == CHOOSE x \in S : TRUE
         IN  SetMax(S \ {d}, IF d > start THEN d ELSE start)

\* MaxAvailableDay with the NumDays cap applied even when NumDays is not positive.
MaxAvailableDayCapAlways(lb) ==
    LET scanned == SetMax(ParsedDays(lb), 1)
        capped  == IF scanned > lb.NumDays THEN lb.NumDays ELSE scanned
    IN  IF capped < 1 THEN 1 ELSE capped

MaxAvailableDay(lb) ==
    LET scanned == SetMax(ParsedDays(lb), 1)
        capped  == IF lb.NumDays > 0 /\ scanned > lb.NumDays THEN lb.NumDays
                   ELSE scanned
    IN  IF capped < 1 THEN 1 ELSE capped

\* DayReleaseTime that counts the days from 0.
DayReleaseTimeFromDayZero(lb, day) ==
    LET d == IF day < 1 THEN 1 ELSE day
    IN  lb.Day1Ts + d * SecondsPerDay

\* DayReleaseTime, in unix seconds.
DayReleaseTime(lb, day) ==
    LET d == IF day < 1 THEN 1 ELSE day
    IN  lb.Day1Ts + (d - 1) * SecondsPerDay

RECURSIVE Collect(_, _, _, _)
\* The star records BuildDayEntries appends for one part while ranging over
\* lb.Members in the order `order` (a Go map has no fixed iteration order).
Collect(lb, dayKey, star, order) ==
    IF order = <<>> THEN <<>>
    ELSE LET key  == Head(order)
             cdl  == lb.Members[key].CompletionDayLevel
             rest == Collect(lb, dayKey, star, Tail(order))
         IN  IF dayKey \in DOMAIN cdl /\ star \in DOMAIN cdl[dayKey]
             THEN <<[memberKey |-> key, ts |-> cdl[dayKey][star].GetStarTs]>> \o rest
             ELSE rest

TsLess(a, b) == a.ts < b.ts

\* One step of the insertion sort sort.Slice runs on slices of at most 12
\* elements: x is appended and swapped leftwards while it is less than its
\* left neighbour.
InsertByTs(s, x) ==
    LET stops == { j \in 1..Len(s) : ~TsLess(x, s[j]) }
        pos   == IF stops = {} THEN 0
                 ELSE CHOOSE j \in stops : \A k \in stops : k <= j
    IN  SubSeq(s, 1, pos) \o <<x>> \o SubSeq(s, pos + 1, Len(s))

RECURSIVE SortByTs(_)
\* sort.Slice(p, func(i, j) bool { return p[i].ts < p[j].ts }).
SortByTs(p) ==
    IF Len(p) <= 1 THEN p
    ELSE InsertByTs(SortByTs(SubSeq(p, 1, Len(p) - 1)), p[Len(p)])

\* The entry each member starts with.
InitEntry(lb, day, key) ==
    [MemberID   |-> key,
     Name       |-> DisplayName(lb.Members[key]),
     Day        |-> day,
     DayScore   |-> 0,
     StarsToday |-> 0,
     HasPart1   |-> FALSE,
     HasPart2   |-> FALSE,
     Part1Since |-> 0,
     Part2Since |-> 0,
     Pos        |-> 0]

\* Points counted from the 1-based index: n-1, ..., 0.
PointsOffByOne(n, i) == n - i

\* The points the record at (1-based) index i of a part's list of n earns.
Points(n, i) == n - (i - 1)

RECURSIVE Award(_, _, _, _, _)
\* The award loop of one part over its sorted records, from record i on.
\* Part1Since/Part2Since are kept in whole seconds.
Award(em, p, i, part, release) ==
    IF i > Len(p) THEN em
    ELSE LET rec == p[i]
         IN  IF rec.memberKey \notin DOMAIN em
             THEN Award(em, p, i + 1, part, release)
             ELSE LET e  == em[rec.memberKey]
                      e1 == [e EXCEPT !.DayScore = @ + Points(Len(p), i),
                                      !.StarsToday = @ + 1]
                      e2 == IF part = 1
                            THEN [e1 EXCEPT !.HasPart1 = TRUE,
                                            !.Part1Since = rec.ts - release]
                            ELSE [e1 EXCEPT !.HasPart2 = TRUE,
                                            !.Part2Since = rec.ts - release]
                  IN  Award([em EXCEPT ![rec.memberKey] = e2], p, i + 1, part, release)

\* The display comparator without the part-2 time.
DisplayLessNoPart2(a, b) ==
    IF a.DayScore # b.DayScore THEN a.DayScore > b.DayScore
    ELSE IF a.StarsToday # b.StarsToday THEN a.StarsToday > b.StarsToday
    ELSE IF a.Name # b.Name THEN StrLess(a.Name, b.Name)
    ELSE StrLess(a.MemberID, b.MemberID)

\* The comparator of the display sort.
DisplayLess(a, b) ==
    IF a.DayScore # b.DayScore THEN a.DayScore > b.DayScore
    ELSE IF a.StarsToday # b.StarsToday THEN a.StarsToday > b.StarsToday
    ELSE IF a.StarsToday = 2 /\ b.StarsToday = 2 /\ a.Part2Since # b.Part2Since
         THEN a.Part2Since < b.Part2Since
    ELSE IF a.Name # b.Name THEN StrLess(a.Name, b.Name)
    ELSE StrLess(a.MemberID, b.MemberID)

\* The same insertion step under the display comparator.
InsertForDisplay(s, x) ==
    LET stops == { j \in 1..Len(s) : ~DisplayLess(x, s[j]) }
        pos   == IF stops = {} THEN 0
                 ELSE CHOOSE j \in stops : \A k \in stops : k <= j
    IN  SubSeq(s, 1, pos) \o <<x>> \o SubSeq(s, pos + 1, Len(s))

RECURSIVE SortForDisplay(_)
\* sort.Slice(entries, ...) with the display comparator.
SortForDisplay(es) ==
    IF Len(es) <= 1 THEN es
    ELSE InsertForDisplay(SortForDisplay(SubSeq(es, 1, Len(es) - 1)), es[Len(es)])

\* The position loop without shared positions: every row gets its own index.
AssignPosByIndex(es, i, nextRank, lastScore, lastDisplay) ==
    [k \in 1..Len(es) |-> [es[k] EXCEPT !.Pos = k]]

RECURSIVE AssignPosDense(_, _, _, _, _)
\* The position loop with nextRank advanced only when the score changes.
AssignPosDense(es, i, nextRank, lastScore, lastDisplay) ==
    IF i > Len(es) THEN es
    ELSE IF i = 1
         THEN AssignPosDense([es EXCEPT ![1].Pos = nextRank], 2, nextRank + 1,
                             es[1].DayScore, nextRank)
    ELSE IF es[i].DayScore = lastScore
         THEN AssignPosDense([es EXCEPT ![i].Pos = lastDisplay], i + 1, nextRank,
                             lastScore, lastDisplay)
    ELSE AssignPosDense([es EXCEPT ![i].Pos = nextRank], i + 1, nextRank + 1,
                        es[i].DayScore, nextRank)

RECURSIVE AssignPos(_, _, _, _, _)
\* The position loop from (1-based) row i on.
AssignPos(es, i, nextRank, lastScore, lastDisplay) ==
    IF i > Len(es) THEN es
    ELSE IF i = 1
         THEN AssignPos([es EXCEPT ![1].Pos = nextRank], 2, nextRank + 1,
                        es[1].DayScore, nextRank)
    ELSE IF es[i].DayScore = lastScore
         THEN AssignPos([es EXCEPT ![i].Pos = lastDisplay], i + 1, nextRank + 1,
                        lastScore, lastDisplay)
    ELSE AssignPos([es EXCEPT ![i].Pos = nextRank], i + 1, nextRank + 1,
                   es[i].DayScore, nextRank)

\* "Move to slice" that leaves out the members without a star.
ToSliceSkipIdle(em, sliceOrder) ==
    SelectSeq([i \in 1..Len(sliceOrder) |-> em[sliceOrder[i]]], LAMBDA e : e.StarsToday > 0)

\* "Move to slice": entriesMap ranged over in the order sliceOrder.
ToSlice(em, sliceOrder) == [i \in 1..Len(sliceOrder) |-> em[sliceOrder[i]]]

\* BuildDayEntries.  collectOrder is the order in which the collecting loop
\* ranges over lb.Members, sliceOrder the order in which entriesMap is moved
\* to the slice; both are iteration orders of a Go map.
BuildDayEntries(lb, day, collectOrder, sliceOrder) ==
    LET dayKey  == Itoa(day)
        release == DayReleaseTime(lb, day)
        p1      == SortByTs(Collect(lb, dayKey, Star1, collectOrder))
        p2      == SortByTs(Collect(lb, dayKey, Star2, collectOrder))
        em0     == [key \in DOMAIN lb.Members |-> InitEntry(lb, day, key)]
        em1     == Award(em0, p1, 1, 1, release)
        em2     == Award(em1, p2, 1, 2, release)
    IN  AssignPos(SortForDisplay(ToSlice(em2, sliceOrder)), 1, 1, 0 - 1, 0)

\* The iteration orders a map with key set S can be ranged over in.
Orders(S) ==
    { o \in [1..Cardinality(S) -> S] : \A i, j \in 1..Cardinality(S) : i # j => o[i] # o[j] }

(***************************************************************************)
(* Inputs of the score engine                                              *)
(***************************************************************************)

K10 == <<"1", "0">>

K9 == <<"9">>

K2 == <<"2">>

NameA == << <<"A">> >>

NameB == << <<"B">> >>

NameEmpty == << <<>> >>

Day1Anchor == 100

StarCompletion(idx, t) == [StarIndex |-> idx, GetStarTs |-> t]

Member(id, name, cdl) == [ID |-> id, Name |-> name, CompletionDayLevel |-> cdl]

Leaderboard(members, numDays) ==
    [Members |-> members, NumDays |-> numDays, Day1Ts |-> Day1Anchor]

\* A completion map with no day at all.
NoDays == [k \in {} |-> <<>>]

\* What a member can have done on day 1: nothing, a day record without
\* stars, part 1 at +5s or +10s, both parts, or part 2 alone before release.
StarMaps ==
    { [k \in {} |-> <<>>],
      Star1 :> StarCompletion(1, Day1Anchor + 5),
      Star1 :> StarCompletion(1, Day1Anchor + 10),
      (Star1 :> StarCompletion(1, Day1Anchor + 5)) @@ (Star2 :> StarCompletion(2, Day1Anchor + 20)),
      (Star1 :> StarCompletion(1, Day1Anchor + 10)) @@ (Star2 :> StarCompletion(2, Day1Anchor + 15)),
      Star2 :> StarCompletion(2, Day1Anchor - 5) }

DayOneMaps == {NoDays} \cup { <<"1">> :> sm : sm \in StarMaps }

\* Who is named what: distinct names, one shared name, anonymous members.
NamePatterns ==
    { <<NameA, NameB, NilName>>, <<NameA, NameA, NameA>>, <<NameEmpty, NilName, NameB>> }

\* Three members, every combination of day-1 records.
ScoringSnapshots ==
    { Leaderboard((K10 :> Member(10, np[1], c1)) @@ (K9 :> Member(9, np[2], c2))
                  @@ (K2 :> Member(2, np[3], c3)), 25) :
        np \in NamePatterns, c1 \in DayOneMaps, c2 \in DayOneMaps, c3 \in DayOneMaps }

\* Day keys as they can come out of the JSON: plain, zero-padded, signed,
\* not a number.
OddDayKeys == { <<"2">>, <<"0", "3">>, <<"x">>, <<"-", "1">> }

DayRecord == Star1 :> StarCompletion(1, Day1Anchor + 5)

\* Two members (or one, or none) with varied day keys and NumDays.
DayKeySnapshots ==
    { Leaderboard((K10 :> Member(10, NameA, [k \in ks |-> DayRecord]))
                  @@ (K9 :> Member(9, NameB, [k \in k2 |-> DayRecord])), nd) :
        ks \in SUBSET OddDayKeys, k2 \in { {}, {<<"1">>}, {<<"3">>} }, nd \in {0, 2, 25} }
    \cup { Leaderboard([k \in {} |-> <<>>], nd) : nd \in {0 - 1, 0, 25} }
    \cup { Leaderboard(K9 :> Member(9, NilName, [k \in ks |-> DayRecord]), 0) :
             ks \in { {}, {<<"1">>}, {<<"+", "2">>} } }

ScoreInputs ==
    { [lb |-> lb, day |-> 1] : lb \in ScoringSnapshots }
    \cup { [lb |-> lb, day |-> d] : lb \in DayKeySnapshots, d \in 0..3 }

(***************************************************************************)
(* State                                                                   *)
(***************************************************************************)

VARIABLES
    sLb,        \* score engine: the snapshot passed in
    sDay,       \* score engine: the day passed in
    sEntries,   \* score engine: what the latest BuildDayEntries call returned
    sPrev,      \* score engine: what the call before it returned
    sCalls,     \* score engine: BuildDayEntries calls made so far
    sMaxDay,    \* score engine: what MaxAvailableDay returned (0: not called)
    state,      \* Model.state
    cfg,        \* Model.cfg.LeaderboardURL
    textInput,  \* Model.textInput.Value()
    leaderboard,\* Model.leaderboard: <<>> is nil, <<lb>> points to lb
    entries,    \* Model.entries
    currentDay, \* Model.currentDay
    maxDay,     \* Model.maxDay
    dayPicker,  \* Model.dayPicker
    pickerDay,  \* Model.pickerDay
    size,       \* <<Model.width, Model.height>>
    err,        \* Model.err
    msg,        \* the message the latest Update call was given
    cmd,        \* the command the latest Init/Update call returned
    pending,    \* the URLs of the fetch commands that have not delivered yet
    delivered,  \* the snapshot of the latest leaderboardLoadedMsg, <<>> if none
    configFile, \* the preference file on disk
    saved       \* what config.Save did in the latest Update call

scoreVars == <<sLb, sDay, sEntries, sPrev, sCalls, sMaxDay>>

modelVars ==
    <<state, cfg, textInput, leaderboard, entries, currentDay, maxDay,
      dayPicker, pickerDay, size, err>>

envVars == <<msg, cmd, pending, delivered, configFile, saved>>

vars == <<scoreVars, modelVars, envVars>>

\* How many times BuildDayEntries is called on one input.
MaxCalls == 2

(***************************************************************************)
(* The score engine applied to an input                                    *)
(***************************************************************************)

\* The controller's variables are idle while the score engine is exercised.
ControllerIdle ==
    /\ state = "stateConfig"
    /\ cfg = <<>>
    /\ textInput = <<>>
    /\ leaderboard = <<>>
    /\ entries = <<>>
    /\ currentDay = 0
    /\ maxDay = 0
    /\ dayPicker = FALSE
    /\ pickerDay = 0
    /\ size = <<0, 0>>
    /\ err = "<nil>"
    /\ msg = <<>>
    /\ cmd = "nil"
    /\ pending = <<>>
    /\ delivered = <<>>
    /\ configFile = <<>>
    /\ saved = "none"

ScoreInit ==
    /\ \E in \in ScoreInputs : sLb = in.lb /\ sDay = in.day
    /\ sEntries = <<>>
    /\ sPrev = <<>>
    /\ sCalls = 0
    /\ sMaxDay = 0
    /\ ControllerIdle

CallBuildDayEntries ==
    /\ sCalls < MaxCalls
    /\ \E collectOrder \in Orders(DOMAIN sLb.Members),
          sliceOrder \in Orders(DOMAIN sLb.Members) :
          sEntries' = BuildDayEntries(sLb, sDay, collectOrder, sliceOrder)
    /\ sPrev' = sEntries
    /\ sCalls' = sCalls + 1
    /\ UNCHANGED <<sLb, sDay, sMaxDay, modelVars, envVars>>

CallMaxAvailableDay ==
    /\ sMaxDay = 0
    /\ sMaxDay' = MaxAvailableDay(sLb)
    /\ UNCHANGED <<sLb, sDay, sEntries, sPrev, sCalls, modelVars, envVars>>

ScoreNext == CallBuildDayEntries \/ CallMaxAvailableDay

SpecScore == ScoreInit /\ [][ScoreNext]_vars

(***************************************************************************)
(* Controller: URLs, errors, the preference file                           *)
(***************************************************************************)

\* A URL string, by what strings.TrimSpace and url.Parse make of it: empty
\* (nothing but white space), pad (white space around it), parseErr (url.Parse
\* fails), the scheme, whether the path ends in .json, whether it contains
\* /leaderboard/private/view/, and the view_key parameter ("" when absent,
\* " " when blank).
URLString(empty, pad, parseErr, scheme, json, private, viewKey) ==
    [empty |-> empty, pad |-> pad, parseErr |-> parseErr, scheme |-> scheme,
     json |-> json, private |-> private, viewKey |-> viewKey]

\* "", the zero value of Config.LeaderboardURL.
EmptyURL == URLString(TRUE, FALSE, FALSE, "", FALSE, FALSE, "")

GoodURL == URLString(FALSE, FALSE, FALSE, "https", TRUE, TRUE, "key")

\* strings.TrimSpace.
TrimSpace(u) == [u EXCEPT !.pad = FALSE]

\* error values; NoErr is nil.
NoErr == "<nil>"

ErrNotFound == "config not found"

\* validateLeaderboardURL without the view_key test.
validateWithoutViewKey(raw) ==
    IF TrimSpace(raw) = EmptyURL THEN "URL cannot be empty"
    ELSE IF raw.parseErr THEN "invalid URL"
    ELSE IF raw.scheme # "https" /\ raw.scheme # "http"
         THEN "URL must start with http or https"
    ELSE IF ~raw.json \/ ~raw.private
         THEN "URL should be the private leaderboard JSON link"
    ELSE NoErr

\* validateLeaderboardURL: the error it returns, NoErr for nil.
validateLeaderboardURL(raw) ==
    IF TrimSpace(raw) = EmptyURL THEN "URL cannot be empty"
    ELSE IF raw.parseErr THEN "invalid URL"
    ELSE IF raw.scheme # "https" /\ raw.scheme # "http"
         THEN "URL must start with http or https"
    ELSE IF ~raw.json \/ ~raw.private
         THEN "URL should be the private leaderboard JSON link"
    ELSE IF raw.viewKey \in {"", " "} THEN "URL must include ?view_key=<value>"
    ELSE NoErr

\* What the user can have in the text input.
TextInputs ==
    { EmptyURL,
      GoodURL,
      [GoodURL EXCEPT !.pad = TRUE],
      [EmptyURL EXCEPT !.pad = TRUE],
      [GoodURL EXCEPT !.parseErr = TRUE],
      [GoodURL EXCEPT !.scheme = "ftp"],
      [GoodURL EXCEPT !.json = FALSE],
      [GoodURL EXCEPT !.viewKey = ""],
      [GoodURL EXCEPT !.viewKey = " "] }

\* The preference file: missing, not JSON, not locatable (no home directory),
\* or a JSON document holding a URL.
FilePresent(url) == [kind |-> "present", url |-> url]

FileStates ==
    { [kind |-> k, url |-> EmptyURL] : k \in {"missing", "malformed", "nopath"} }
    \cup { FilePresent(u) : u \in {EmptyURL, GoodURL, [GoodURL EXCEPT !.viewKey = ""]} }

\* config.Load: (Config, error).
Load(file) ==
    CASE file.kind = "nopath"     -> [cfg |-> EmptyURL, err |-> "cannot determine home directory"]
      [] file.kind = "missing"    -> [cfg |-> EmptyURL, err |-> ErrNotFound]
      [] file.kind = "malformed"  -> [cfg |-> EmptyURL, err |-> "unmarshal error"]
      [] OTHER                    -> [cfg |-> file.url, err |-> NoErr]

\* tui.New that records every load error, ErrNotFound included.
NewRecordsNotFound(c, cErr) ==
    IF cErr = NoErr /\ c # EmptyURL
    THEN IF validateLeaderboardURL(c) # NoErr
         THEN [state |-> "stateConfig", err |-> validateLeaderboardURL(c)]
         ELSE [state |-> "stateLoading", err |-> NoErr]
    ELSE [state |-> "stateConfig", err |-> cErr]

\* tui.New: the state and err it picks.
New(c, cErr) ==
    IF cErr = NoErr /\ c # EmptyURL
    THEN IF validateLeaderboardURL(c) # NoErr
         THEN [state |-> "stateConfig", err |-> validateLeaderboardURL(c)]
         ELSE [state |-> "stateLoading", err |-> NoErr]
    ELSE [state |-> "stateConfig",
          err   |-> IF cErr # NoErr /\ cErr # ErrNotFound THEN cErr ELSE NoErr]

\* The snapshots a fetch can deliver.
DayStars(day, off1, off2) ==
    Itoa(day) :>
        ((Star1 :> StarCompletion(1, Day1Anchor + (day - 1) * SecondsPerDay + off1))
         @@ (Star2 :> StarCompletion(2, Day1Anchor + (day - 1) * SecondsPerDay + off2)))

FetchedSnapshots ==
    { \* two days, no ties
      Leaderboard((K10 :> Member(10, NameA, DayStars(1, 5, 20) @@ DayStars(2, 9, 11)))
                  @@ (K9 :> Member(9, NameB, DayStars(1, 10, 15))), 25),
      \* one day, both parts tied
      Leaderboard((K10 :> Member(10, NameA, DayStars(1, 5, 20)))
                  @@ (K9 :> Member(9, NilName, DayStars(1, 5, 20))), 25),
      \* three days
      Leaderboard((K10 :> Member(10, NameA, DayStars(1, 5, 20) @@ DayStars(3, 7, 8)))
                  @@ (K9 :> Member(9, NameB, DayStars(2, 10, 15))), 25),
      \* data for day 3, two days declared
      Leaderboard((K10 :> Member(10, NameA, DayStars(3, 5, 20)))
                  @@ (K9 :> Member(9, NameB, DayStars(1, 10, 15))), 2),
      \* nobody has a star
      Leaderboard(K2 :> Member(2, NilName, NoDays), 0),
      \* no members
      Leaderboard([k \in {} |-> <<>>], 25) }

\* Errors aoc.FetchLeaderboard can return: the deadline passed, a status other than 200.
FetchErrors == {"context deadline exceeded", "unexpected status"}

\* tea.WindowSizeMsg contents.
WindowSizes == { <<80, 24>> }

(***************************************************************************)
(* Controller: start                                                       *)
(***************************************************************************)

\* Model.cfgErr is written by tui.New and never read again: it is Load's error
\* for the file the program started with, and is not kept as a variable.

\* The score-engine variables are idle while the controller runs.
ScoreIdle ==
    /\ sLb = Leaderboard([k \in {} |-> <<>>], 0)
    /\ sDay = 0
    /\ sEntries = <<>>
    /\ sPrev = <<>>
    /\ sCalls = 0
    /\ sMaxDay = 0

\* main: config.Load, tui.New, and the command Model.Init returns.
Init ==
    /\ ScoreIdle
    /\ \E file \in FileStates :
          LET l == Load(file)
              m == New(l.cfg, l.err)
          IN  /\ configFile = file
              /\ cfg = l.cfg
              /\ state = m.state
              /\ err = m.err
              /\ cmd = IF m.state = "stateLoading" THEN "fetch" ELSE "blink"
              /\ pending = IF m.state = "stateLoading" THEN <<l.cfg>> ELSE <<>>
    /\ textInput = EmptyURL
    /\ leaderboard = <<>>
    /\ entries = <<>>
    /\ currentDay = 0
    /\ maxDay = 0
    /\ dayPicker = FALSE
    /\ pickerDay = 0
    /\ size = <<0, 0>>
    /\ msg = [type |-> "none", key |-> ""]
    /\ delivered = <<>>
    /\ saved = "none"

(***************************************************************************)
(* Controller: Model.Update                                                *)
(***************************************************************************)

\* tea.Quit ends the program: no message is handled after it.
Running == cmd # "quit"

\* What every Update call leaves behind: the message it was given, the
\* command it returns, and what it did to the preference file.
Handled(m, c, sv) ==
    /\ msg' = m
    /\ cmd' = c
    /\ saved' = sv

KeyMsg(k) == [type |-> "KeyMsg", key |-> k]

OtherMsg(t) == [type |-> t, key |-> ""]

\* msg.String() of the keys the program tells apart, and one it does not.
Keys ==
    { "ctrl+c", "q", "esc", "enter", "up", "k", "down", "j", "left", "h",
      "right", "l", "d", "r", "x" }

Remove(s, i) == SubSeq(s, 1, i - 1) \o SubSeq(s, i + 1, Len(s))

\* entries = aoc.BuildDayEntries(lb, day), under some iteration order of the maps.
Rebuilt(lb, day) ==
    \E collectOrder \in Orders(DOMAIN lb.Members),
       sliceOrder \in Orders(DOMAIN lb.Members) :
       entries' = BuildDayEntries(lb, day, collectOrder, sliceOrder)

\* case tea.WindowSizeMsg.
WindowSize ==
    /\ Running
    /\ \E sz \in WindowSizes : size' = sz
    /\ Handled(OtherMsg("WindowSizeMsg"), "nil", "none")
    /\ UNCHANGED <<state, cfg, textInput, leaderboard, entries, currentDay,
                   maxDay, dayPicker, pickerDay, err>>
    /\ UNCHANGED <<pending, delivered, configFile, scoreVars>>

\* case errMsg that also drops the snapshot and the rows.
FetchFailedDropsSnapshot ==
    /\ Running
    /\ \E i \in 1..Len(pending), e \in FetchErrors :
          /\ pending' = Remove(pending, i)
          /\ err' = e
    /\ state' = IF state = "stateLoading" THEN "stateLeaderboard" ELSE state
    /\ leaderboard' = <<>>
    /\ entries' = <<>>
    /\ Handled(OtherMsg("errMsg"), "nil", "none")
    /\ UNCHANGED <<cfg, textInput, currentDay, maxDay, dayPicker, pickerDay, size>>
    /\ UNCHANGED <<delivered, configFile, scoreVars>>

\* case errMsg that records the error and stays in stateLoading.
FetchFailedStaysLoading ==
    /\ Running
    /\ \E i \in 1..Len(pending), e \in FetchErrors :
          /\ pending' = Remove(pending, i)
          /\ err' = e
    /\ Handled(OtherMsg("errMsg"), "nil", "none")
    /\ UNCHANGED <<state, cfg, textInput, leaderboard, entries, currentDay, maxDay,
                   dayPicker, pickerDay, size>>
    /\ UNCHANGED <<delivered, configFile, scoreVars>>

\* case errMsg: a fetch command delivers an error.
FetchFailed ==
    /\ Running
    /\ \E i \in 1..Len(pending), e \in FetchErrors :
          /\ pending' = Remove(pending, i)
          /\ err' = e
    /\ state' = IF state = "stateLoading" THEN "stateLeaderboard" ELSE state
    /\ Handled(OtherMsg("errMsg"), "nil", "none")
    /\ UNCHANGED <<cfg, textInput, leaderboard, entries, currentDay, maxDay,
                   dayPicker, pickerDay, size>>
    /\ UNCHANGED <<delivered, configFile, scoreVars>>

\* The day chosen without the clamp to the new maxDay.
ClampDayNoUpper(day, newMax) == IF day < 1 THEN newMax ELSE day

\* The day the loaded-message handler settles on.
ClampDay(day, newMax) ==
    LET chosen == IF day < 1 THEN newMax ELSE day
    IN  IF chosen > newMax THEN newMax ELSE chosen

\* case leaderboardLoadedMsg: a fetch command delivers a snapshot.
FetchSucceeded ==
    /\ Running
    /\ \E i \in 1..Len(pending), lb \in FetchedSnapshots :
          /\ pending' = Remove(pending, i)
          /\ leaderboard' = <<lb>>
          /\ delivered' = <<lb>>
          /\ maxDay' = MaxAvailableDay(lb)
          /\ currentDay' = ClampDay(currentDay, MaxAvailableDay(lb))
          /\ Rebuilt(lb, ClampDay(currentDay, MaxAvailableDay(lb)))
    /\ state' = "stateLeaderboard"
    /\ err' = NoErr
    /\ Handled(OtherMsg("leaderboardLoadedMsg"), "nil", "none")
    /\ UNCHANGED <<cfg, textInput, dayPicker, pickerDay, size>>
    /\ UNCHANGED <<configFile, scoreVars>>

\* What no key handler touches.
KeyFrame == UNCHANGED <<size, delivered, scoreVars>>

\* updateConfigKey, case "enter", validation fails.
ConfigEnterInvalid ==
    /\ Running /\ state = "stateConfig"
    /\ validateLeaderboardURL(TrimSpace(textInput)) # NoErr
    /\ err' = validateLeaderboardURL(TrimSpace(textInput))
    /\ Handled(KeyMsg("enter"), "nil", "none")
    /\ KeyFrame
    /\ UNCHANGED <<state, cfg, textInput, leaderboard, entries, currentDay, maxDay,
                   dayPicker, pickerDay, pending, configFile>>

\* "enter" that goes on to fetch although config.Save failed.
ConfigEnterSaveFailsFetches ==
    /\ Running /\ state = "stateConfig"
    /\ validateLeaderboardURL(TrimSpace(textInput)) = NoErr
    /\ cfg' = TrimSpace(textInput)
    /\ state' = "stateLoading"
    /\ err' = NoErr
    /\ pending' = Append(pending, TrimSpace(textInput))
    /\ Handled(KeyMsg("enter"), "fetch", "failed")
    /\ KeyFrame
    /\ UNCHANGED <<textInput, leaderboard, entries, currentDay, maxDay, dayPicker,
                   pickerDay, configFile>>

\* updateConfigKey, case "enter", validation passes and config.Save fails.
ConfigEnterSaveFails ==
    /\ Running /\ state = "stateConfig"
    /\ validateLeaderboardURL(TrimSpace(textInput)) = NoErr
    /\ cfg' = TrimSpace(textInput)
    /\ err' = "save error"
    /\ Handled(KeyMsg("enter"), "nil", "failed")
    /\ KeyFrame
    /\ UNCHANGED <<state, textInput, leaderboard, entries, currentDay, maxDay,
                   dayPicker, pickerDay, pending, configFile>>

\* updateConfigKey, case "enter", validation passes and config.Save succeeds.
ConfigEnterSaved ==
    /\ Running /\ state = "stateConfig"
    /\ validateLeaderboardURL(TrimSpace(textInput)) = NoErr
    /\ configFile.kind # "nopath"
    /\ cfg' = TrimSpace(textInput)
    /\ configFile' = FilePresent(TrimSpace(textInput))
    /\ state' = "stateLoading"
    /\ err' = NoErr
    /\ pending' = Append(pending, TrimSpace(textInput))
    /\ Handled(KeyMsg("enter"), "fetch", "ok")
    /\ KeyFrame
    /\ UNCHANGED <<textInput, leaderboard, entries, currentDay, maxDay, dayPicker,
                   pickerDay>>

\* updateConfigKey, case "ctrl+c", "esc".
ConfigQuit ==
    /\ Running /\ state = "stateConfig"
    /\ \E k \in {"ctrl+c", "esc"} : Handled(KeyMsg(k), "quit", "none")
    /\ KeyFrame
    /\ UNCHANGED <<modelVars, pending, configFile>>

\* updateConfigKey, any other key: the text input takes it.
ConfigType ==
    /\ Running /\ state = "stateConfig"
    /\ \E k \in Keys \ {"enter", "ctrl+c", "esc"} : Handled(KeyMsg(k), "nil", "none")
    /\ textInput' \in TextInputs
    /\ KeyFrame
    /\ UNCHANGED <<state, cfg, leaderboard, entries, currentDay, maxDay, dayPicker,
                   pickerDay, err, pending, configFile>>

\* stateLoading that handles "r" as the leaderboard view does.
LoadingKeyRefreshes ==
    /\ Running /\ state = "stateLoading"
    /\ \E k \in Keys :
          /\ Handled(KeyMsg(k), IF k \in {"ctrl+c", "q"} THEN "quit"
                                ELSE IF k = "r" THEN "fetch" ELSE "nil", "none")
          /\ pending' = IF k = "r" THEN Append(pending, cfg) ELSE pending
    /\ KeyFrame
    /\ UNCHANGED <<modelVars, configFile>>

\* stateLoading that ignores every key until the fetch completes.
LoadingKeyNoQuit ==
    /\ Running /\ state = "stateLoading"
    /\ \E k \in Keys : Handled(KeyMsg(k), "nil", "none")
    /\ KeyFrame
    /\ UNCHANGED <<modelVars, pending, configFile>>

\* case tea.KeyMsg in stateLoading: quit on "ctrl+c" and "q", nothing otherwise.
LoadingKey ==
    /\ Running /\ state = "stateLoading"
    /\ \E k \in Keys :
          Handled(KeyMsg(k), IF k \in {"ctrl+c", "q"} THEN "quit" ELSE "nil", "none")
    /\ KeyFrame
    /\ UNCHANGED <<modelVars, pending, configFile>>

\* updateLeaderboardKey: "ctrl+c" and "q".
LeaderboardQuit ==
    /\ Running /\ state = "stateLeaderboard"
    /\ \E k \in {"ctrl+c", "q"} : Handled(KeyMsg(k), "quit", "none")
    /\ KeyFrame
    /\ UNCHANGED <<modelVars, pending, configFile>>

\* updateLeaderboardKey: with no leaderboard every other key is dropped.
LeaderboardKeyNoData ==
    /\ Running /\ state = "stateLeaderboard" /\ leaderboard = <<>>
    /\ \E k \in Keys \ {"ctrl+c", "q"} : Handled(KeyMsg(k), "nil", "none")
    /\ KeyFrame
    /\ UNCHANGED <<modelVars, pending, configFile>>

\* A key is handled by the day picker.
InPicker == Running /\ state = "stateLeaderboard" /\ leaderboard # <<>> /\ dayPicker

\* A key is handled by the leaderboard view.
InView == Running /\ state = "stateLeaderboard" /\ leaderboard # <<>> /\ ~dayPicker

\* Day picker: "up", "k".
PickerUp ==
    /\ InPicker
    /\ \E k \in {"up", "k"} : Handled(KeyMsg(k), "nil", "none")
    /\ pickerDay' = IF pickerDay > 1 THEN pickerDay - 1 ELSE pickerDay
    /\ KeyFrame
    /\ UNCHANGED <<state, cfg, textInput, leaderboard, entries, currentDay, maxDay,
                   dayPicker, err, pending, configFile>>

\* "down", "j" in the day picker without the maxDay test.
PickerDownUnclamped ==
    /\ InPicker
    /\ \E k \in {"down", "j"} : Handled(KeyMsg(k), "nil", "none")
    /\ pickerDay' = pickerDay + 1
    /\ KeyFrame
    /\ UNCHANGED <<state, cfg, textInput, leaderboard, entries, currentDay, maxDay,
                   dayPicker, err, pending, configFile>>

\* Day picker: "down", "j".
PickerDown ==
    /\ InPicker
    /\ \E k \in {"down", "j"} : Handled(KeyMsg(k), "nil", "none")
    /\ pickerDay' = IF pickerDay < maxDay THEN pickerDay + 1 ELSE pickerDay
    /\ KeyFrame
    /\ UNCHANGED <<state, cfg, textInput, leaderboard, entries, currentDay, maxDay,
                   dayPicker, err, pending, configFile>>

\* Day picker: "enter".
PickerEnter ==
    /\ InPicker
    /\ Handled(KeyMsg("enter"), "nil", "none")
    /\ currentDay' = pickerDay
    /\ Rebuilt(leaderboard[1], pickerDay)
    /\ dayPicker' = FALSE
    /\ KeyFrame
    /\ UNCHANGED <<state, cfg, textInput, leaderboard, maxDay, pickerDay, err,
                   pending, configFile>>

\* "esc", "d" in the day picker that commit the cursor as "enter" does.
PickerCancelCommits ==
    /\ InPicker
    /\ \E k \in {"esc", "d"} : Handled(KeyMsg(k), "nil", "none")
    /\ currentDay' = pickerDay
    /\ Rebuilt(leaderboard[1], pickerDay)
    /\ dayPicker' = FALSE
    /\ KeyFrame
    /\ UNCHANGED <<state, cfg, textInput, leaderboard, maxDay, pickerDay, err,
                   pending, configFile>>

\* Day picker: "esc", "d".
PickerCancel ==
    /\ InPicker
    /\ \E k \in {"esc", "d"} : Handled(KeyMsg(k), "nil", "none")
    /\ dayPicker' = FALSE
    /\ KeyFrame
    /\ UNCHANGED <<state, cfg, textInput, leaderboard, entries, currentDay, maxDay,
                   pickerDay, err, pending, configFile>>

\* Day picker: any other key.
PickerOtherKey ==
    /\ InPicker
    /\ \E k \in Keys \ {"ctrl+c", "q", "up", "k", "down", "j", "enter", "esc", "d"} :
          Handled(KeyMsg(k), "nil", "none")
    /\ KeyFrame
    /\ UNCHANGED <<modelVars, pending, configFile>>

\* "left", "h" that wraps from day 1 to maxDay.
DayLeftWraps ==
    /\ InView
    /\ \E k \in {"left", "h"} : Handled(KeyMsg(k), "nil", "none")
    /\ currentDay' = IF currentDay > 1 THEN currentDay - 1 ELSE maxDay
    /\ Rebuilt(leaderboard[1], currentDay')
    /\ KeyFrame
    /\ UNCHANGED <<state, cfg, textInput, leaderboard, maxDay, dayPicker, pickerDay,
                   err, pending, configFile>>

\* Leaderboard view: "left", "h".
DayLeft ==
    /\ InView
    /\ \E k \in {"left", "h"} : Handled(KeyMsg(k), "nil", "none")
    /\ IF currentDay > 1
       THEN /\ currentDay' = currentDay - 1
            /\ Rebuilt(leaderboard[1], currentDay - 1)
       ELSE UNCHANGED <<currentDay, entries>>
    /\ KeyFrame
    /\ UNCHANGED <<state, cfg, textInput, leaderboard, maxDay, dayPicker, pickerDay,
                   err, pending, configFile>>

\* "right", "l" that moves the day and keeps the old rows.
DayRightStale ==
    /\ InView
    /\ \E k \in {"right", "l"} : Handled(KeyMsg(k), "nil", "none")
    /\ currentDay' = IF currentDay < maxDay THEN currentDay + 1 ELSE currentDay
    /\ KeyFrame
    /\ UNCHANGED <<state, cfg, textInput, leaderboard, entries, maxDay, dayPicker,
                   pickerDay, err, pending, configFile>>

\* Leaderboard view: "right", "l".
DayRight ==
    /\ InView
    /\ \E k \in {"right", "l"} : Handled(KeyMsg(k), "nil", "none")
    /\ IF currentDay < maxDay
       THEN /\ currentDay' = currentDay + 1
            /\ Rebuilt(leaderboard[1], currentDay + 1)
       ELSE UNCHANGED <<currentDay, entries>>
    /\ KeyFrame
    /\ UNCHANGED <<state, cfg, textInput, leaderboard, maxDay, dayPicker, pickerDay,
                   err, pending, configFile>>

\* "d" that opens the picker with the cursor where it was left.
OpenPickerKeepsCursor ==
    /\ InView
    /\ Handled(KeyMsg("d"), "nil", "none")
    /\ dayPicker' = TRUE
    /\ KeyFrame
    /\ UNCHANGED <<state, cfg, textInput, leaderboard, entries, currentDay, maxDay,
                   pickerDay, err, pending, configFile>>

\* Leaderboard view: "d".
OpenPicker ==
    /\ InView
    /\ Handled(KeyMsg("d"), "nil", "none")
    /\ dayPicker' = TRUE
    /\ pickerDay' = currentDay
    /\ KeyFrame
    /\ UNCHANGED <<state, cfg, textInput, leaderboard, entries, currentDay, maxDay,
                   err, pending, configFile>>

\* "r" that issues the fetch and stays in the leaderboard view.
RefreshStaysInView ==
    /\ InView
    /\ Handled(KeyMsg("r"), "fetch", "none")
    /\ pending' = Append(pending, cfg)
    /\ KeyFrame
    /\ UNCHANGED <<state, cfg, textInput, leaderboard, entries, currentDay, maxDay,
                   dayPicker, pickerDay, err, configFile>>

\* Leaderboard view: "r".
Refresh ==
    /\ InView
    /\ Handled(KeyMsg("r"), "fetch", "none")
    /\ state' = "stateLoading"
    /\ pending' = Append(pending, cfg)
    /\ KeyFrame
    /\ UNCHANGED <<cfg, textInput, leaderboard, entries, currentDay, maxDay,
                   dayPicker, pickerDay, err, configFile>>

\* Leaderboard view: any other key.
ViewOtherKey ==
    /\ InView
    /\ \E k \in Keys \ {"ctrl+c", "q", "left", "h", "right", "l", "d", "r"} :
          Handled(KeyMsg(k), "nil", "none")
    /\ KeyFrame
    /\ UNCHANGED <<modelVars, pending, configFile>>

Next ==
    \/ WindowSize
    \/ FetchFailed
    \/ FetchSucceeded
    \/ ConfigEnterInvalid
    \/ ConfigEnterSaveFails
    \/ ConfigEnterSaved
    \/ ConfigQuit
    \/ ConfigType
    \/ LoadingKey
    \/ LeaderboardQuit
    \/ LeaderboardKeyNoData
    \/ PickerUp
    \/ PickerDown
    \/ PickerEnter
    \/ PickerCancel
    \/ PickerOtherKey
    \/ DayLeft
    \/ DayRight
    \/ OpenPicker
    \/ Refresh
    \/ ViewOtherKey

Spec == Init /\ [][Next]_vars

\* The command fetchLeaderboardCmd returns always delivers its message: the
\* request runs under a ten second deadline (context.WithTimeout), so it ends
\* with a snapshot or an error, and the runtime passes the result to Update.
FetchCompletes == FetchFailed \/ FetchSucceeded

SpecFair == Spec /\ WF_vars(FetchCompletes)

(***************************************************************************)
(* Properties of the score engine (checked under SpecScore)                *)
(***************************************************************************)

\* The members with a completion record for part `star` of day sDay.
Finishers(star) ==
    { k \in DOMAIN sLb.Members :
        /\ Itoa(sDay) \in DOMAIN sLb.Members[k].CompletionDayLevel
        /\ star \in DOMAIN sLb.Members[k].CompletionDayLevel[Itoa(sDay)] }

StarTs(k, star) == sLb.Members[k].CompletionDayLevel[Itoa(sDay)][star].GetStarTs

\* The finishing orders of a part: bijections onto 1..n in which a strictly
\* earlier timestamp comes strictly earlier.
FinishOrders(star) ==
    LET F == Finishers(star)
    IN  { r \in [F -> 1..Cardinality(F)] :
            /\ \A a, b \in F : a # b => r[a] # r[b]
            /\ \A a, b \in F : StarTs(a, star) < StarTs(b, star) => r[a] < r[b] }

\* n, n-1, ..., 1 along a finishing order; nothing for a member not in it.
PartPoints(r, k) == IF k \in DOMAIN r THEN Cardinality(DOMAIN r) - r[k] + 1 ELSE 0

RECURSIVE SumScores(_, _)
SumScores(es, i) == IF i > Len(es) THEN 0 ELSE es[i].DayScore + SumScores(es, i + 1)

Rows == 1..Len(sEntries)

Built == sCalls >= 1

\* C1: two BuildDayEntries calls on the same (snapshot, day) return the same
\* sequence, whatever order the members map is ranged over in.
C1_SameOutputOnSameInput == sCalls >= 2 => sEntries = sPrev

\* C1, witness of the failing case: a second call on a snapshot in which two
\* members finished part 1 at the same second returned different points.
C1_TieReordered ==
    /\ sCalls >= 2
    /\ \E a, b \in Finishers(Star1) : a # b /\ StarTs(a, Star1) = StarTs(b, Star1)
    /\ \E i \in Rows : \E j \in 1..Len(sPrev) :
          /\ sEntries[i].MemberID = sPrev[j].MemberID
          /\ sEntries[i].DayScore # sPrev[j].DayScore

\* C2: per part, the n finishers get n, n-1, ..., 1 points in ascending
\* timestamp order, a member's DayScore is the sum of their two parts' points,
\* and the points of a part add up to n(n+1)/2.
C2_PointsPerPart ==
    Built =>
        /\ \E r1 \in FinishOrders(Star1), r2 \in FinishOrders(Star2) :
              \A k \in DOMAIN sLb.Members :
                 \E i \in Rows :
                    /\ sEntries[i].MemberID = k
                    /\ sEntries[i].DayScore = PartPoints(r1, k) + PartPoints(r2, k)
        /\ LET n1 == Cardinality(Finishers(Star1))
               n2 == Cardinality(Finishers(Star2))
           IN  2 * SumScores(sEntries, 1) = n1 * (n1 + 1) + n2 * (n2 + 1)

\* C2 witness: three members finished part 1 and two of them part 2.
C2_ThreeFinishers ==
    /\ Built
    /\ Cardinality(Finishers(Star1)) = 3
    /\ Cardinality(Finishers(Star2)) = 2
    /\ \E i \in Rows : sEntries[i].DayScore = 5

\* C3: rows with equal DayScore have equal Pos, and a row with a strictly
\* higher DayScore has a strictly smaller Pos.
C3_PosFollowsScore ==
    \A i, j \in Rows :
        /\ sEntries[i].DayScore = sEntries[j].DayScore => sEntries[i].Pos = sEntries[j].Pos
        /\ sEntries[i].DayScore > sEntries[j].DayScore => sEntries[i].Pos < sEntries[j].Pos

\* C3 witness: two rows tied on a positive score, and a third row below them.
C3_TieAndLower ==
    \E i, j, k \in Rows :
        /\ i # j
        /\ sEntries[i].DayScore = sEntries[j].DayScore
        /\ sEntries[i].DayScore > sEntries[k].DayScore
        /\ sEntries[k].DayScore > 0

\* C4: the Pos of a row is the 1-based index of the first row with the same
\* DayScore.
C4_PosIsFirstIndexOfScore ==
    \A i \in Rows :
        /\ sEntries[sEntries[i].Pos].DayScore = sEntries[i].DayScore
        /\ \A j \in 1..(sEntries[i].Pos - 1) : sEntries[j].DayScore # sEntries[i].DayScore

\* C4 witness: positions 1, 1, 3.
C4_OneOneThree ==
    /\ Len(sEntries) = 3
    /\ sEntries[1].Pos = 1
    /\ sEntries[2].Pos = 1
    /\ sEntries[3].Pos = 3

\* Row a may stand before row b in the order C5 states.
C5_MayPrecede(a, b) ==
    \/ a.DayScore > b.DayScore
    \/ /\ a.DayScore = b.DayScore
       /\ \/ a.StarsToday > b.StarsToday
          \/ /\ a.StarsToday = b.StarsToday
             /\ LET timed == a.StarsToday = 2 /\ b.StarsToday = 2
                IN  \/ timed /\ a.Part2Since < b.Part2Since
                    \/ /\ timed => a.Part2Since = b.Part2Since
                       /\ \/ StrLess(a.Name, b.Name)
                          \/ a.Name = b.Name /\ StrLess(a.MemberID, b.MemberID)

\* C5: the rows are sorted by DayScore descending, StarsToday descending,
\* part-2 time ascending (between two rows with two stars), name ascending,
\* member key ascending; rows that differ only in the finer keys share a Pos.
C5_DisplayOrder ==
    \A i, j \in Rows :
        i < j =>
            /\ C5_MayPrecede(sEntries[i], sEntries[j])
            /\ sEntries[i].DayScore = sEntries[j].DayScore
                  => sEntries[i].Pos = sEntries[j].Pos

\* C5 witness: two rows with two stars and the same score, the faster part 2
\* first although its name sorts later; and two rows ordered by member key alone.
C5_FasterPart2First ==
    \E i, j \in Rows :
        /\ i < j
        /\ sEntries[i].StarsToday = 2 /\ sEntries[j].StarsToday = 2
        /\ sEntries[i].DayScore = sEntries[j].DayScore
        /\ sEntries[i].Part2Since < sEntries[j].Part2Since
        /\ StrLess(sEntries[j].Name, sEntries[i].Name)
        /\ sEntries[i].Pos = sEntries[j].Pos

\* C6: one row per member key of the snapshot, none missing and none twice,
\* and a member without a completion record for the day has DayScore 0,
\* StarsToday 0 and neither part flag.
C6_OneRowPerMember ==
    Built =>
        /\ Len(sEntries) = Cardinality(DOMAIN sLb.Members)
        /\ \A k \in DOMAIN sLb.Members : \E i \in Rows : sEntries[i].MemberID = k
        /\ \A i \in Rows :
              Itoa(sDay) \notin DOMAIN sLb.Members[sEntries[i].MemberID].CompletionDayLevel
                 => /\ sEntries[i].DayScore = 0
                    /\ sEntries[i].StarsToday = 0
                    /\ ~sEntries[i].HasPart1
                    /\ ~sEntries[i].HasPart2

\* C6 witness: a member with no record for the day is listed beside one who
\* scored.
C6_IdleMemberListed ==
    /\ Built
    /\ \E i, j \in Rows :
          /\ Itoa(sDay) \notin DOMAIN sLb.Members[sEntries[i].MemberID].CompletionDayLevel
          /\ sEntries[j].DayScore > 0

\* The largest of a non-empty set of integers.
Largest(S) == CHOOSE x \in S : \A y \in S : y <= x

\* C7: MaxAvailableDay is the largest numeric day key of any member, raised to
\* 1 if none exceeds 1, lowered to NumDays if NumDays is positive and smaller;
\* so it is at least 1 and at most a positive NumDays.
C7_MaxAvailableDay ==
    sMaxDay # 0 =>
        /\ LET top == Largest(ParsedDays(sLb) \cup {1})
           IN  sMaxDay = IF sLb.NumDays > 0 /\ sLb.NumDays < top THEN sLb.NumDays ELSE top
        /\ sMaxDay >= 1
        /\ sLb.NumDays > 0 => sMaxDay <= sLb.NumDays

\* C7 witness: a key that is no number and a day-3 key are present, and the
\* result is NumDays = 2.
C7_CappedByNumDays ==
    /\ sMaxDay = 2
    /\ sLb.NumDays = 2
    /\ 3 \in ParsedDays(sLb)
    /\ \E k \in DOMAIN sLb.Members : <<"x">> \in DOMAIN sLb.Members[k].CompletionDayLevel

(***************************************************************************)
(* Properties of the controller (checked under Spec)                       *)
(***************************************************************************)

\* The rows BuildDayEntries can return for (lb, day).
IsBuildOf(es, lb, day) ==
    \E collectOrder \in Orders(DOMAIN lb.Members),
       sliceOrder \in Orders(DOMAIN lb.Members) :
       es = BuildDayEntries(lb, day, collectOrder, sliceOrder)

\* C8: whenever a snapshot is stored, it is the one the latest successful
\* fetch delivered, entries is BuildDayEntries of it and currentDay, and maxDay
\* is MaxAvailableDay of it.
C8_EntriesMatchSnapshotAndDay ==
    leaderboard # <<>> =>
        /\ leaderboard = delivered
        /\ maxDay = MaxAvailableDay(leaderboard[1])
        /\ IsBuildOf(entries, leaderboard[1], currentDay)

\* C8 witness: after a refresh that failed and a resize, the user has moved
\* right to day 2 of the stored snapshot.
C8_NavigatedAfterFailedRefresh ==
    /\ leaderboard # <<>>
    /\ msg = KeyMsg("right")
    /\ currentDay = 2
    /\ err \in FetchErrors
    /\ size # <<0, 0>>
    /\ Len(entries) = 2

\* C9: handling a fetch failure records the error, moves Loading to Viewing,
\* and leaves the snapshot, the rows, currentDay and maxDay as they were; with
\* a snapshot stored, the keys are then handled by the leaderboard view.
C9_FetchFailureKeepsSnapshot ==
    [][msg'.type = "errMsg" =>
          /\ err' \in FetchErrors
          /\ state = "stateLoading" => state' = "stateLeaderboard"
          /\ state # "stateLoading" => state' = state
          /\ leaderboard' = leaderboard
          /\ entries' = entries
          /\ currentDay' = currentDay
          /\ maxDay' = maxDay
          /\ leaderboard # <<>> => InView']_vars

\* C9 witness: a refresh timed out and the rows of the earlier snapshot are
\* still there.
C9_TimedOutWithSnapshot ==
    /\ msg.type = "errMsg"
    /\ err = "context deadline exceeded"
    /\ state = "stateLeaderboard"
    /\ leaderboard # <<>>
    /\ Len(entries) = 2
    /\ currentDay = 2

\* C10: handling a fetch success stores the snapshot, sets maxDay from it,
\* sets currentDay to maxDay if it was below 1 or is above the new maxDay and
\* keeps it otherwise, rebuilds the rows for that day, moves to Viewing and
\* clears the error; then 1 <= currentDay <= maxDay.
C10_FetchSuccessStoresAndClamps ==
    [][msg'.type = "leaderboardLoadedMsg" =>
          /\ leaderboard' # <<>>
          /\ leaderboard' = delivered'
          /\ maxDay' = MaxAvailableDay(leaderboard'[1])
          /\ currentDay' = IF currentDay < 1 \/ currentDay > maxDay' THEN maxDay'
                           ELSE currentDay
          /\ IsBuildOf(entries', leaderboard'[1], currentDay')
          /\ state' = "stateLeaderboard"
          /\ err' = NoErr
          /\ 1 <= currentDay' /\ currentDay' <= maxDay']_vars

\* C10 witness: a refresh delivered a snapshot with three days while day 2 was
\* shown, and day 2 is still shown.
C10_KeptDayAfterRefresh ==
    /\ msg.type = "leaderboardLoadedMsg"
    /\ state = "stateLeaderboard"
    /\ err = NoErr
    /\ maxDay = 3
    /\ currentDay = 2

\* C11: in every Viewing state with the day picker closed, with or without a
\* stored snapshot, handling key r moves the controller to Loading and issues
\* one fetch for the stored URL.
C11_RefreshFromEveryView ==
    [][(/\ Running
        /\ state = "stateLeaderboard"
        /\ ~dayPicker
        /\ msg' = KeyMsg("r"))
          => /\ state' = "stateLoading"
             /\ cmd' = "fetch"
             /\ pending' = Append(pending, cfg)]_vars

\* C11 failing run: the first fetch failed, the view offers "Press r to
\* reload", and key r has been handled without leaving the view or fetching.
C11_RefreshDroppedWithoutSnapshot ==
    /\ msg = KeyMsg("r")
    /\ state = "stateLeaderboard"
    /\ leaderboard = <<>>
    /\ err # NoErr
    /\ cmd = "nil"
    /\ pending = <<>>

\* C12 as stated: key r handled while a fetch is outstanding issues one more
\* fetch, so that two are outstanding.
C12_RefreshWhileOutstandingFetchesAgain ==
    [][(/\ Running
        /\ Len(pending) >= 1
        /\ msg' = KeyMsg("r"))
          => /\ cmd' = "fetch"
             /\ Len(pending') = Len(pending) + 1]_vars

\* C12 amended: key r handled while a fetch is outstanding is ignored: it
\* returns no command, issues no fetch and changes nothing in the controller;
\* at most one fetch is outstanding after every step.
C12_RefreshWhileOutstandingIgnored ==
    [][/\ Len(pending') <= 1
       /\ (/\ Running
           /\ Len(pending) >= 1
           /\ msg' = KeyMsg("r"))
             => /\ cmd' = "nil"
                /\ pending' = pending
                /\ UNCHANGED modelVars]_vars

\* C12 witness: key r has been handled while the fetch of a refresh was
\* outstanding, and that fetch is still the only one.
C12_RefreshKeyDuringRefresh ==
    /\ msg = KeyMsg("r")
    /\ state = "stateLoading"
    /\ leaderboard # <<>>
    /\ Len(pending) = 1
    /\ cmd = "nil"

\* The message being handled is one of the keys ks.
KeyStep(ks) == msg'.type = "KeyMsg" /\ msg'.key \in ks

\* C13: in Viewing with a snapshot and the picker closed, a left key moves
\* currentDay down by one iff currentDay > 1 and a right key moves it up by one
\* iff currentDay < maxDay, and entries is then rebuilt for the new day; at
\* day 1 a left key, and at maxDay a right key, leaves currentDay and entries
\* as they were.
C13_LeftRightClamped ==
    [][/\ (InView /\ KeyStep({"left", "h"})) =>
             IF currentDay > 1
             THEN /\ currentDay' = currentDay - 1
                  /\ IsBuildOf(entries', leaderboard[1], currentDay')
             ELSE UNCHANGED <<currentDay, entries>>
       /\ (InView /\ KeyStep({"right", "l"})) =>
             IF currentDay < maxDay
             THEN /\ currentDay' = currentDay + 1
                  /\ IsBuildOf(entries', leaderboard[1], currentDay')
             ELSE UNCHANGED <<currentDay, entries>>
       /\ (InView /\ KeyStep({"left", "h", "right", "l"})) =>
             /\ 1 <= currentDay' /\ currentDay' <= maxDay
             /\ UNCHANGED <<leaderboard, maxDay, state, dayPicker>>]_vars

\* C13 witness: a left key has been handled with day 1 of a three-day snapshot
\* shown.
C13_LeftAtDayOne ==
    /\ msg = KeyMsg("left")
    /\ state = "stateLeaderboard"
    /\ leaderboard # <<>>
    /\ ~dayPicker
    /\ maxDay = 3
    /\ currentDay = 1

QuitStep ==
    /\ ConfigQuit \/ LoadingKey \/ LeaderboardQuit
    /\ msg' = KeyMsg("ctrl+c")
    /\ cmd' = "quit"

\* C15: in every controller state the program can be in before it quits
\* (configuration, loading with a fetch outstanding, viewing with the picker
\* open or closed, with or without a snapshot) key ctrl+c can be handled, and
\* handling it always returns the quit command, with the controller unchanged
\* and the outstanding fetch left alone; after the quit command no step is
\* taken.
C15_QuitAlways ==
    /\ [](Running => ENABLED QuitStep)
    /\ [][/\ cmd = "quit" => UNCHANGED vars
          /\ KeyStep({"ctrl+c"}) =>
                /\ cmd' = "quit"
                /\ pending' = pending
                /\ UNCHANGED modelVars]_vars

\* C15 witness: ctrl+c has been handled in Loading, and the fetch is still
\* outstanding.
C15_QuitWhileFetching ==
    /\ msg = KeyMsg("ctrl+c")
    /\ cmd = "quit"
    /\ state = "stateLoading"
    /\ Len(pending) = 1

\* The URLs validation rejects, by what is wrong with them.
Rejected(u) ==
    \/ u.empty
    \/ u.parseErr
    \/ u.scheme \notin {"http", "https"}
    \/ ~u.json
    \/ ~u.private
    \/ u.viewKey \in {"", " "}

\* C16: handling enter in AwaitingConfiguration with a text that fails
\* validation (empty, unparsable, bad scheme, wrong path, view_key missing or
\* blank) keeps the state, records the validation error, makes no attempt to
\* save, issues no fetch and leaves the stored URL and the file as they were.
C16_InvalidSubmitStays ==
    [][(/\ Running
        /\ state = "stateConfig"
        /\ KeyStep({"enter"})
        /\ Rejected(textInput))
          => /\ state' = "stateConfig"
             /\ err' # NoErr
             /\ err' # "save error"
             /\ textInput.empty => err' = "URL cannot be empty"
             /\ textInput = [GoodURL EXCEPT !.viewKey = ""] =>
                   err' = "URL must include ?view_key=<value>"
             /\ saved' = "none"
             /\ cmd' = "nil"
             /\ pending' = pending
             /\ UNCHANGED <<cfg, configFile>>]_vars

\* C16 witness: a URL without view_key has been submitted and rejected.
C16_MissingViewKeyRejected ==
    /\ msg = KeyMsg("enter")
    /\ state = "stateConfig"
    /\ textInput = [GoodURL EXCEPT !.viewKey = ""]
    /\ err = "URL must include ?view_key=<value>"
    /\ saved = "none"
    /\ pending = <<>>

\* C17: at start the controller is in Loading with exactly one fetch issued,
\* for the loaded URL, iff the preference loaded without error and holds a
\* non-empty URL that passes validation; otherwise it is in
\* AwaitingConfiguration with no fetch issued, and when the file is merely
\* missing no error is recorded.
C17_StartState ==
    msg.type = "none" =>
       LET usable == /\ configFile.kind = "present"
                     /\ ~Rejected(configFile.url)
       IN  /\ usable <=> state = "stateLoading"
           /\ usable => /\ pending = << configFile.url >>
                        /\ cfg = configFile.url
                        /\ cmd = "fetch"
                        /\ err = NoErr
           /\ ~usable => /\ state = "stateConfig"
                         /\ pending = <<>>
                         /\ cmd # "fetch"
           /\ configFile.kind = "missing" => err = NoErr
           /\ configFile.kind \in {"malformed", "nopath"} => err # NoErr

\* C17 witness: the program has started with no preference file.
C17_StartedWithoutFile ==
    /\ msg.type = "none"
    /\ configFile.kind = "missing"
    /\ state = "stateConfig"
    /\ err = NoErr
    /\ pending = <<>>

\* C18: opening the picker sets pickerDay to currentDay; while it is open an
\* up key lowers pickerDay by one iff pickerDay > 1 and a down key raises it by
\* one iff pickerDay < maxDay, and both keep it open; enter sets currentDay to
\* pickerDay, rebuilds entries for that day and closes the picker, and the
\* day committed lies in [1, maxDay].
C18_PickerMovesAndCommits ==
    [][/\ (InView /\ KeyStep({"d"})) =>
             /\ dayPicker'
             /\ pickerDay' = currentDay
       /\ (InPicker /\ KeyStep({"up", "k"})) =>
             /\ pickerDay' = IF pickerDay > 1 THEN pickerDay - 1 ELSE pickerDay
             /\ dayPicker'
       /\ (InPicker /\ KeyStep({"down", "j"})) =>
             /\ pickerDay' = IF pickerDay < maxDay THEN pickerDay + 1 ELSE pickerDay
             /\ dayPicker'
       /\ (InPicker /\ KeyStep({"enter"})) =>
             /\ currentDay' = pickerDay
             /\ IsBuildOf(entries', leaderboard[1], pickerDay)
             /\ ~dayPicker'
             /\ 1 <= currentDay' /\ currentDay' <= maxDay'
             /\ UNCHANGED <<leaderboard, maxDay, state>>
       /\ dayPicker' => 1 <= pickerDay' /\ pickerDay' <= maxDay']_vars

\* C18 witness: enter has been handled with the picker's cursor on day 3 of a
\* three-day snapshot, and day 3 is shown with the picker closed.
C18_CommittedDayThree ==
    /\ msg = KeyMsg("enter")
    /\ state = "stateLeaderboard"
    /\ leaderboard # <<>>
    /\ ~dayPicker
    /\ pickerDay = 3
    /\ currentDay = 3
    /\ maxDay = 3
    /\ Len(entries) = 2

\* C19: every fetch issued is ended by exactly one completion message, a
\* snapshot or an error, which takes it out of the outstanding fetches; while
\* the controller is Loading a key changes nothing in it, and only ctrl+c and
\* q return a command (quit); and, the fetch command being treated fairly,
\* every Loading state is followed by Viewing or by a quit.
C19_LoadingEnds ==
    /\ [][/\ msg'.type \in {"errMsg", "leaderboardLoadedMsg"} =>
                /\ Len(pending) >= 1
                /\ Len(pending') = Len(pending) - 1
                /\ state' = "stateLeaderboard"
          /\ msg'.type \notin {"errMsg", "leaderboardLoadedMsg"} =>
                Len(pending') >= Len(pending)
          /\ (Running /\ state = "stateLoading" /\ msg'.type = "KeyMsg") =>
                /\ UNCHANGED modelVars
                /\ pending' = pending
                /\ cmd' = IF msg'.key \in {"ctrl+c", "q"} THEN "quit" ELSE "nil"]_vars
    /\ (state = "stateLoading") ~> (state = "stateLeaderboard" \/ cmd = "quit")

\* C19 witness: the only fetch issued has ended with the deadline error and
\* the controller is Viewing, with no snapshot.
C19_DeadlineEndedLoading ==
    /\ msg.type = "errMsg"
    /\ err = "context deadline exceeded"
    /\ state = "stateLeaderboard"
    /\ leaderboard = <<>>
    /\ pending = <<>>

\* C20: handling enter in AwaitingConfiguration moves to Loading iff the
\* trimmed text passes validation and saving it succeeds, and then the error
\* is cleared, the trimmed URL is what was saved and one fetch for it is
\* issued; when validation passes and saving fails the state stays
\* AwaitingConfiguration, the save error is recorded and no fetch is issued.
C20_SubmitSavesThenLoads ==
    [][(Running /\ state = "stateConfig" /\ KeyStep({"enter"})) =>
          /\ state' = "stateLoading" <=> (~Rejected(textInput) /\ saved' = "ok")
          /\ ~Rejected(textInput) => saved' \in {"ok", "failed"}
          /\ saved' = "ok" =>
                /\ err' = NoErr
                /\ cmd' = "fetch"
                /\ pending' = Append(pending, [textInput EXCEPT !.pad = FALSE])
                /\ configFile' = FilePresent([textInput EXCEPT !.pad = FALSE])
          /\ saved' = "failed" =>
                /\ state' = "stateConfig"
                /\ err' = "save error"
                /\ cmd' = "nil"
                /\ pending' = pending
                /\ configFile' = configFile]_vars

\* C20 witness: a valid URL typed with white space around it has been
\* submitted and saved, and the fetch for the trimmed URL is outstanding.
C20_PaddedURLSubmitted ==
    /\ msg = KeyMsg("enter")
    /\ saved = "ok"
    /\ state = "stateLoading"
    /\ textInput = [GoodURL EXCEPT !.pad = TRUE]
    /\ configFile = FilePresent(GoodURL)
    /\ pending = << GoodURL >>
    /\ err = NoErr

(***************************************************************************)
(* Rendering of the elapsed times                                          *)
(***************************************************************************)

\* fmt's %02d of a number >= 0.
Pad2(n) == IF n < 10 THEN <<"0">> \o Itoa(n) ELSE Itoa(n)

\* formatDuration, of a duration in whole seconds: HH:MM:SS.
formatDuration(d) ==
    LET totalSeconds == IF d < 0 THEN 0 ELSE d
        h == totalSeconds \div 3600
        m == (totalSeconds % 3600) \div 60
        s == totalSeconds % 60
    IN  Pad2(h) \o <<":">> \o Pad2(m) \o <<":">> \o Pad2(s)

\* C21: the release time of day d is day1_ts + (d - 1) * 86400, with d < 1
\* taken as 1; for every row BuildDayEntries returns, the elapsed time of a
\* completed part is its completion timestamp minus that release time, in
\* seconds: negative exactly when the completion precedes the release, and
\* shown as 00:00:00 only by formatDuration.
C21_ElapsedSinceRelease ==
    LET release == sLb.Day1Ts + ((IF sDay < 1 THEN 1 ELSE sDay) - 1) * 86400
        zero    == <<"0", "0", ":", "0", "0", ":", "0", "0">>
    IN  /\ DayReleaseTime(sLb, sDay) = release
        /\ Built =>
             \A i \in Rows :
                LET e == sEntries[i]
                    k == e.MemberID
                IN  /\ e.HasPart1 =>
                          /\ e.Part1Since = StarTs(k, Star1) - release
                          /\ e.Part1Since < 0 <=> StarTs(k, Star1) < release
                          /\ e.Part1Since < 0 => formatDuration(e.Part1Since) = zero
                          /\ e.Part1Since > 0 => formatDuration(e.Part1Since) # zero
                    /\ e.HasPart2 =>
                          /\ e.Part2Since = StarTs(k, Star2) - release
                          /\ e.Part2Since < 0 <=> StarTs(k, Star2) < release
                          /\ e.Part2Since < 0 => formatDuration(e.Part2Since) = zero
                          /\ e.Part2Since > 0 => formatDuration(e.Part2Since) # zero

\* C21 witness: rows built for day 2 hold a part 1 completed 5 s after day 1
\* was released, a day less 5 s before the release of day 2.
C21_CompletedBeforeRelease ==
    /\ Built
    /\ sDay = 2
    /\ \E i \in Rows :
          /\ sEntries[i].HasPart1
          /\ sEntries[i].Part1Since = 5 - 86400
          /\ formatDuration(sEntries[i].Part1Since) # formatDuration(5)

\* C22: at most one fetch is outstanding, and one is outstanding exactly when
\* the state is Loading; every fetch completion is handled in Loading, with
\* the day picker closed, never in AwaitingConfiguration or Viewing.
C22_OneFetchIffLoading ==
    /\ [](/\ Len(pending) <= 1
          /\ Len(pending) = 1 <=> state = "stateLoading"
          /\ state = "stateLoading" => ~dayPicker)
    /\ [][msg'.type \in {"errMsg", "leaderboardLoadedMsg"} =>
             /\ state = "stateLoading"
             /\ ~dayPicker
             /\ pending' = <<>>]_vars

\* C22 witness: key r has started a refresh; its fetch is the one outstanding
\* and the snapshot of the previous fetch is still stored.
C22_RefreshOutstanding ==
    /\ msg = KeyMsg("r")
    /\ cmd = "fetch"
    /\ state = "stateLoading"
    /\ leaderboard # <<>>
    /\ pending = << cfg >>

\* C23: in every state, a stored snapshot implies 1 <= currentDay <= maxDay,
\* and an open day picker implies that the state is Viewing, a snapshot is
\* stored and 1 <= pickerDay <= maxDay.
C23_DaysInRange ==
    /\ leaderboard # <<>> =>
          /\ 1 <= currentDay
          /\ currentDay <= maxDay
    /\ dayPicker =>
          /\ state = "stateLeaderboard"
          /\ leaderboard # <<>>
          /\ 1 <= pickerDay
          /\ pickerDay <= maxDay

\* C23 witness: the picker is open on a two-day snapshot, day 1 is shown and
\* the cursor has been moved down to the last day.
C23_CursorOnLastDay ==
    /\ msg = KeyMsg("down")
    /\ dayPicker
    /\ leaderboard # <<>>
    /\ maxDay = 2
    /\ currentDay = 1
    /\ pickerDay = 2

=============================================================================
